---- MODULE Spec2Model ----
(***************************************************************************)
(* rustree: an S3 object-transfer CLI (src/src/main.rs).                   *)
(*                                                                         *)
(* Three parts of the program are modelled, each with its specification:  *)
(*   Spec     the `cp` run: the pagination loop of main (main.rs 183-214) *)
(*            driving cp_action (main.rs 80-155) on a tokio runtime;      *)
(*   SpecKey  the key mapping computed inside cp_action (main.rs 95-99,   *)
(*            113-115), as a pure function over bounded strings;          *)
(*   SpecPool the run of main as it stands (main.rs 218-241): twelve       *)
(*            futures, each sleeping inside tokio_threadpool::blocking, on *)
(*            a runtime of four blocking threads.                          *)
(* Strings are sequences of one-character strings.                        *)
(***************************************************************************)
EXTENDS Integers, Sequences, FiniteSets, TLC

VARIABLES
    \* ---- key mapping (SpecKey) ----
    km_pc,                   \* "input" | "mapped"
    km_src_key,              \* src_path.key
    km_dst_key,              \* dst_path.key
    km_obj_key,              \* matching_obj.key
    km_rel_key,              \* rel_key computed by the code
    km_out_key,              \* dst_key computed by the code
    \* ---- cp run (Spec) ----
    pages,                   \* the backend's listing: a sequence of pages
    main_pc,                 \* position of main
    is_truncated,            \* main.rs:183
    next_continuation_token, \* main.rs:184
    list_obj_output,         \* the page returned by the last list call
    matching_objs,           \* the iterator handed to cp_action (what is left of it)
    list_reqs,               \* continuation tokens of the list requests issued, in order
    listed,                  \* objects returned by the list calls, in order
    dispatched,              \* objects whose task was spawned, in spawn order
    task_pc,                 \* per object: position of its spawned future
    rel_key,                 \* per object: rel_key captured by its future
    get_obj_output,          \* per object: the get response, once it arrived
    put_obj_req,             \* per object: the put request built by the task
    put_issued,              \* objects for which a put was sent to the destination
    dst_path_lock,           \* Mutex<S3Path>: [holder, poisoned]
    dst_s3_lock,             \* Mutex<S3Client>: [holder, poisoned]
    dst_bucket,              \* the objects stored in the destination bucket
    stdout,                  \* lines printed by println!
    stderr,                  \* lines printed by eprintln! and by the panic hook
    exit_status,             \* process exit status, NoExit while running
    \* ---- the pool run of main (SpecPool) ----
    pool_pc,                 \* position of main: "run" | "done"
    pool_x,                  \* x of `for x in 0..12`: the futures spawned so far
    pool_tasks,              \* how many of the spawned futures are in each position
    pool_not_ready           \* how many times blocking() has returned NotReady

km_vars  == <<km_pc, km_src_key, km_dst_key, km_obj_key, km_rel_key, km_out_key>>
main_vars == <<main_pc, is_truncated, next_continuation_token, list_obj_output,
               matching_objs, list_reqs, listed, dispatched, exit_status>>
task_vars == <<task_pc, rel_key, get_obj_output, put_obj_req, put_issued,
               dst_path_lock, dst_s3_lock, dst_bucket, stdout, stderr>>
cp_vars  == <<pages, main_vars, task_vars>>
pool_vars == <<pool_pc, pool_x, pool_tasks, pool_not_ready>>
vars     == <<km_vars, cp_vars, pool_vars>>

-----------------------------------------------------------------------------
(* Bounds *)
MaxKeyLen    == 4     \* longest object key drawn for the key mapping
MaxPrefixLen == 2     \* longest source / destination prefix drawn
MaxObjects   == 2     \* objects in the source listing
MaxPages     == 2     \* pages of the source listing
CoreThreads  == 1     \* worker threads of the runtime handed to cp_action

-----------------------------------------------------------------------------
(* Strings *)
Chars == {"a", "/"}

RECURSIVE StrsOfLen(_)
StrsOfLen(n) ==
    IF n = 0 THEN {<<>>}
    ELSE {Append(s, c) : s \in StrsOfLen(n - 1), c \in Chars}

StrsUpTo(n) == UNION {StrsOfLen(k) : k \in 0..n}

StartsWith(s, p) == Len(p) <= Len(s) /\ SubSeq(s, 1, Len(p)) = p

Drop(s, n) == SubSeq(s, n + 1, Len(s))

\* str::trim_start_matches(&str): every repeated match of the pattern at the
\* front is removed; an empty pattern removes nothing.
RECURSIVE trim_start_matches(_, _)
trim_start_matches(s, pat) ==
    IF pat # <<>> /\ StartsWith(s, pat)
    THEN trim_start_matches(Drop(s, Len(pat)), pat)
    ELSE s

\* str::trim_end_matches(char): every repeated trailing occurrence is removed.
RECURSIVE trim_end_matches(_, _)
trim_end_matches(s, c) ==
    IF s # <<>> /\ s[Len(s)] = c
    THEN trim_end_matches(SubSeq(s, 1, Len(s) - 1), c)
    ELSE s

\* RelKey with the source prefix left in place.
RelKey_PrefixKept(obj_key, src_key) == trim_start_matches(obj_key, <<"/">>)

\* main.rs:95-99
RelKey(obj_key, src_key) ==
    trim_start_matches(trim_start_matches(obj_key, src_key), <<"/">>)

\* main.rs:113-115
DstKey(dst_key, rel) == trim_end_matches(dst_key, "/") \o <<"/">> \o rel

-----------------------------------------------------------------------------
(* Key mapping as a pure function: SpecKey *)

KmIdle ==
    /\ km_pc = "idle"
    /\ km_src_key = <<>> /\ km_dst_key = <<>> /\ km_obj_key = <<>>
    /\ km_rel_key = <<>> /\ km_out_key = <<>>

\* The keys a listing with prefix src_path.key returns start with that prefix.
KmInit ==
    /\ km_pc = "input"
    /\ km_src_key \in StrsUpTo(MaxPrefixLen)
    /\ km_dst_key \in StrsUpTo(MaxPrefixLen)
    /\ km_obj_key \in {k \in StrsUpTo(MaxKeyLen) : StartsWith(k, km_src_key)}
    /\ km_rel_key = <<>>
    /\ km_out_key = <<>>

MapKey ==
    /\ km_pc = "input"
    /\ km_pc' = "mapped"
    /\ km_rel_key' = RelKey(km_obj_key, km_src_key)
    /\ km_out_key' = DstKey(km_dst_key, RelKey(km_obj_key, km_src_key))
    /\ UNCHANGED <<km_src_key, km_dst_key, km_obj_key>>

-----------------------------------------------------------------------------
(* The cp run: Spec *)

Objs == 1..MaxObjects

\* Option<T>: None is {}, Some(x) is {x}.
None == {}
Some(x) == {x}
unwrap(o) == CHOOSE x \in o : TRUE
unwrap_or(o, d) == IF o = None THEN d ELSE unwrap(o)

\* S3Path values of the run (S3Path, main.rs:30-33); object n has key "a/" + name.
src_path == [bucket |-> "src", key |-> <<"a">>]
dst_path == [bucket |-> "dst", key |-> <<"d", "/">>]
ObjName == <<"x", "y", "z", "w">>
ObjKey(n) == src_path.key \o <<"/", ObjName[n]>>

RECURSIVE SumTo(_, _)
SumTo(sz, k) == IF k = 0 THEN 0 ELSE sz[k] + SumTo(sz, k - 1)

Range(a, b) == [i \in 1..(b - a + 1) |-> a + i - 1]

\* A listing of n pages with the page sizes sz: page k carries the next objects
\* in backend order, is_truncated is true on every page but the last, where it
\* is false or absent, and a page without objects carries no contents at all.
Listing(sz, last_flag) ==
    [k \in 1..Len(sz) |->
        [contents |-> IF sz[k] = 0 THEN None
                      ELSE Some(Range(SumTo(sz, k - 1) + 1, SumTo(sz, k))),
         is_truncated |-> IF k < Len(sz) THEN Some(TRUE) ELSE last_flag,
         next_continuation_token |-> IF k < Len(sz) THEN Some(k) ELSE None]]

Listings ==
    {Listing(sz, f) :
        sz \in {s \in UNION {[1..n -> 0..MaxObjects] : n \in 1..MaxPages} :
                    SumTo(s, Len(s)) <= MaxObjects},
        f \in {Some(FALSE), None}}

\* The backend's answer to a ListObjectsV2Request: the first page without a
\* continuation token, the page after page t with the token of page t.
list_objects_v2(token) == pages[unwrap_or(token, 0) + 1]

\* GetObjectOutput values the source may answer with.
GetOutputs ==
    { [body |-> "B1", content_length |-> Some(1), content_type |-> Some("t1"),
       content_disposition |-> Some("d1"), content_language |-> Some("l1"),
       content_encoding |-> Some("e1"), metadata |-> Some("m1")],
      [body |-> "B2", content_length |-> Some(2), content_type |-> None,
       content_disposition |-> None, content_language |-> None,
       content_encoding |-> None, metadata |-> None],
      [body |-> "B3", content_length |-> None, content_type |-> Some("t1"),
       content_disposition |-> Some("d1"), content_language |-> Some("l1"),
       content_encoding |-> Some("e1"), metadata |-> Some("m1")] }

\* What a failed request reports (the Display of the rusoto error).
Causes == {"HttpDispatchError"}

\* PutObjectRequest with the content type left at its default.
PutObjectRequest_NoContentType(bucket, key, out) ==
    [bucket |-> bucket,
     key |-> key,
     body |-> out.body,
     content_disposition |-> out.content_disposition,
     content_language |-> out.content_language,
     content_length |-> out.content_length,
     content_type |-> None,
     metadata |-> out.metadata,
     content_encoding |-> None]

\* main.rs:125-135
PutObjectRequest(bucket, key, out) ==
    [bucket |-> bucket,
     key |-> key,
     body |-> out.body,
     content_disposition |-> out.content_disposition,
     content_language |-> out.content_language,
     content_length |-> out.content_length,
     content_type |-> out.content_type,
     metadata |-> out.metadata,
     content_encoding |-> None]

NoExit == -1
Unlocked == [holder |-> 0, poisoned |-> FALSE]

Terminal == {"done", "getFailed", "putFailed", "panicked"}
InClosure == {"waitPath", "lockedPath", "waitS3", "lockedS3", "putCreated"}

\* worker threads busy running the and_then closure of a task
Busy == {i \in Objs : task_pc[i] \in InClosure}

CpInit ==
    /\ pages \in Listings
    /\ main_pc = "loop"
    /\ is_truncated = TRUE
    /\ next_continuation_token = None
    /\ list_obj_output = None
    /\ matching_objs = <<>>
    /\ list_reqs = <<>>
    /\ listed = <<>>
    /\ dispatched = <<>>
    /\ exit_status = NoExit
    /\ task_pc = [i \in Objs |-> "unspawned"]
    /\ rel_key = [i \in Objs |-> <<>>]
    /\ get_obj_output = [i \in Objs |-> None]
    /\ put_obj_req = [i \in Objs |-> None]
    /\ put_issued = {}
    /\ dst_path_lock = Unlocked
    /\ dst_s3_lock = Unlocked
    /\ dst_bucket = {}
    /\ stdout = <<>>
    /\ stderr = <<>>

\* Dropping the Runtime when main unwinds shuts the pool down at once: the
\* futures that have not finished are dropped.
DropRuntime ==
    [i \in Objs |-> IF task_pc[i] \in Terminal \cup {"unspawned"}
                    THEN task_pc[i] ELSE "cancelled"]

-----------------------------------------------------------------------------
(* main: the pagination loop, main.rs:183-214 *)

\* main.rs:186-197, the list call answers: the page's objects become the
\* iterator handed to cp_action.
ListOk ==
    /\ main_pc = "loop" /\ is_truncated
    /\ LET out == list_objects_v2(next_continuation_token) IN
         /\ out.contents # None
         /\ list_reqs' = Append(list_reqs, next_continuation_token)
         /\ list_obj_output' = Some(out)
         /\ matching_objs' = unwrap(out.contents)
         /\ listed' = listed \o unwrap(out.contents)
         /\ main_pc' = "cp_action"
    /\ UNCHANGED <<is_truncated, next_continuation_token, dispatched, exit_status>>
    /\ UNCHANGED <<pages, task_vars, km_vars, pool_vars>>

\* main.rs:197, list_obj_output.contents.unwrap() on a page that carries no
\* object list: main panics, the runtime is dropped, the process exits 101.
ListNoContents ==
    /\ main_pc = "loop" /\ is_truncated
    /\ LET out == list_objects_v2(next_continuation_token) IN
         /\ out.contents = None
         /\ list_reqs' = Append(list_reqs, next_continuation_token)
         /\ list_obj_output' = Some(out)
    /\ main_pc' = "panicked"
    /\ exit_status' = 101
    /\ task_pc' = DropRuntime
    /\ stderr' = Append(stderr, [text |-> "panicked", cause |-> "unwrap on None"])
    /\ UNCHANGED <<is_truncated, next_continuation_token, matching_objs, listed,
                   dispatched>>
    /\ UNCHANGED <<pages, rel_key, get_obj_output, put_obj_req, put_issued,
                   dst_path_lock, dst_s3_lock, dst_bucket, stdout, km_vars, pool_vars>>

\* main.rs:194-195, the list call fails: `?` returns the error from main, the
\* runtime is dropped, the process exits with status 1.
ListErr ==
    /\ main_pc = "loop" /\ is_truncated
    /\ \E cause \in Causes :
         stderr' = Append(stderr, [text |-> "Error", cause |-> cause])
    /\ list_reqs' = Append(list_reqs, next_continuation_token)
    /\ main_pc' = "failed"
    /\ exit_status' = 1
    /\ task_pc' = DropRuntime
    /\ UNCHANGED <<is_truncated, next_continuation_token, list_obj_output,
                   matching_objs, listed, dispatched>>
    /\ UNCHANGED <<pages, rel_key, get_obj_output, put_obj_req, put_issued,
                   dst_path_lock, dst_s3_lock, dst_bucket, stdout, km_vars, pool_vars>>

\* NextObj with the iterator consumed from the back.
NextObj_FromBack(objs) == objs[Len(objs)]

\* The object the for loop of cp_action takes next from the iterator.
NextObj(objs) == Head(objs)

\* cp_action, main.rs:88-104 and 145-152: one turn of the for loop. The get
\* request and rel_key are built, and the future is spawned: rt.spawn queues
\* it and returns at once.
Spawn ==
    /\ main_pc = "cp_action" /\ matching_objs # <<>>
    /\ LET obj == NextObj(matching_objs) IN
         /\ task_pc' = [task_pc EXCEPT ![obj] = "spawned"]
         /\ rel_key' = [rel_key EXCEPT ![obj] = RelKey(ObjKey(obj), src_path.key)]
         /\ dispatched' = Append(dispatched, obj)
         /\ matching_objs' = SelectSeq(matching_objs, LAMBDA o : o # obj)
    /\ UNCHANGED <<main_pc, is_truncated, next_continuation_token,
                   list_obj_output, list_reqs, listed, exit_status>>
    /\ UNCHANGED <<pages, get_obj_output, put_obj_req, put_issued, dst_path_lock,
                   dst_s3_lock, dst_bucket, stdout, stderr, km_vars, pool_vars>>

\* NextToken for a loop that does not carry the token forward.
NextToken_NotCarried(out) == None

\* main.rs:210-211: the continuation token of the next list request.
NextToken(out) == out.next_continuation_token

\* IteratorDone for a cp_action that returns before its for loop is over.
IteratorDone_Early == TRUE

\* main.rs:145-154: the for loop of cp_action is over when the iterator is empty.
IteratorDone == matching_objs = <<>>

\* main.rs:154 and 209-211: cp_action returns Ok, the loop variables are updated.
CpActionReturn ==
    /\ main_pc = "cp_action" /\ IteratorDone
    /\ is_truncated' = unwrap_or(unwrap(list_obj_output).is_truncated, FALSE)
    /\ next_continuation_token' = NextToken(unwrap(list_obj_output))
    /\ main_pc' = "loop"
    /\ UNCHANGED <<list_obj_output, matching_objs, list_reqs, listed, dispatched,
                   exit_status>>
    /\ UNCHANGED <<pages, task_vars, km_vars, pool_vars>>

\* Idle for a shutdown that does not wait for the spawned futures.
Idle_NoWait == TRUE

\* rt.shutdown_on_idle().wait() returns once no spawned future is left.
Idle == \A i \in Objs : task_pc[i] \in Terminal \cup {"unspawned"}

\* main.rs:214 and 241: the loop is over, main waits for the runtime to be
\* idle and returns Ok(()).
ShutdownOnIdle ==
    /\ main_pc = "loop" /\ ~is_truncated
    /\ Idle
    /\ main_pc' = "done"
    /\ exit_status' = 0
    /\ UNCHANGED <<is_truncated, next_continuation_token, list_obj_output,
                   matching_objs, list_reqs, listed, dispatched>>
    /\ UNCHANGED <<pages, task_vars, km_vars, pool_vars>>

-----------------------------------------------------------------------------
(* The spawned future of one object, main.rs:101-103, 110-142 and 146-151 *)

\* The line of eprintln!("Future error: {}", e), main.rs:148.
FutureError(cause) == [text |-> "Future error", cause |-> cause]

\* The line of println!, main.rs:117-122.
Progress(rel, dst, len) == [rel_key |-> rel, dst_key |-> dst, content_length |-> len]

\* A worker thread is free to poll a future: none of the CoreThreads workers is
\* inside (or blocked inside) the closure of another task.
FreeWorker == Cardinality(Busy) < CoreThreads

\* A worker polls the future for the first time: the get request goes out.
StartGet(i) ==
    /\ task_pc[i] = "spawned"
    /\ FreeWorker
    /\ task_pc' = [task_pc EXCEPT ![i] = "get"]
    /\ UNCHANGED <<rel_key, get_obj_output, put_obj_req, put_issued, dst_path_lock,
                   dst_s3_lock, dst_bucket, stdout, stderr>>
    /\ UNCHANGED <<pages, main_vars, km_vars, pool_vars>>

\* main.rs:101-102 and 110: the get answers and and_then runs its closure on
\* the worker that polled, which goes on to lock dst_path.
GetOk(i) ==
    /\ task_pc[i] = "get"
    /\ FreeWorker
    /\ \E out \in GetOutputs : get_obj_output' = [get_obj_output EXCEPT ![i] = Some(out)]
    /\ task_pc' = [task_pc EXCEPT ![i] = "waitPath"]
    /\ UNCHANGED <<rel_key, put_obj_req, put_issued, dst_path_lock, dst_s3_lock,
                   dst_bucket, stdout, stderr>>
    /\ UNCHANGED <<pages, main_vars, km_vars, pool_vars>>

\* AfterGetErr for a chain built with then() in place of and_then(): the
\* closure runs whatever the get returned.
AfterGetErr_RunsClosure == "waitPath"

\* Where the future goes when its get fails: and_then skips the closure.
AfterGetErr == "getFailed"

\* main.rs:103 and 147-150: the get fails, the error is printed and the future ends.
GetErr(i) ==
    /\ task_pc[i] = "get"
    /\ FreeWorker
    /\ \E cause \in Causes : stderr' = Append(stderr, FutureError(cause))
    /\ task_pc' = [task_pc EXCEPT ![i] = AfterGetErr]
    /\ UNCHANGED <<rel_key, get_obj_output, put_obj_req, put_issued, dst_path_lock,
                   dst_s3_lock, dst_bucket, stdout>>
    /\ UNCHANGED <<pages, main_vars, km_vars, pool_vars>>

\* main.rs:111, dst_path.lock().unwrap(): the worker gets the mutex once it is
\* free. A poisoned mutex makes unwrap panic; tokio catches the panic of a
\* task and drops the task.
LockPath(i) ==
    /\ task_pc[i] = "waitPath"
    /\ dst_path_lock.holder = 0
    /\ IF dst_path_lock.poisoned
       THEN /\ task_pc' = [task_pc EXCEPT ![i] = "panicked"]
            /\ stderr' = Append(stderr, [text |-> "panicked", cause |-> "PoisonError"])
            /\ UNCHANGED dst_path_lock
       ELSE /\ task_pc' = [task_pc EXCEPT ![i] = "lockedPath"]
            /\ dst_path_lock' = [dst_path_lock EXCEPT !.holder = i]
            /\ UNCHANGED stderr
    /\ UNCHANGED <<rel_key, get_obj_output, put_obj_req, put_issued, dst_s3_lock,
                   dst_bucket, stdout>>
    /\ UNCHANGED <<pages, main_vars, km_vars, pool_vars>>

\* main.rs:112-135: the destination key, the progress line and the put
\* request. content_length.unwrap() panics on a response without a content
\* length; the guard of dst_path is dropped while unwinding, which poisons it.
BuildPut(i) ==
    /\ task_pc[i] = "lockedPath"
    /\ LET out == unwrap(get_obj_output[i])
           dst_key == DstKey(dst_path.key, rel_key[i])
       IN
         IF out.content_length = None
         THEN /\ task_pc' = [task_pc EXCEPT ![i] = "panicked"]
              /\ dst_path_lock' = [holder |-> 0, poisoned |-> TRUE]
              /\ stderr' = Append(stderr, [text |-> "panicked", cause |-> "unwrap on None"])
              /\ UNCHANGED <<stdout, put_obj_req>>
         ELSE /\ task_pc' = [task_pc EXCEPT ![i] = "waitS3"]
              /\ stdout' = Append(stdout, Progress(rel_key[i], dst_key, unwrap(out.content_length)))
              /\ put_obj_req' = [put_obj_req EXCEPT
                                   ![i] = Some(PutObjectRequest(dst_path.bucket, dst_key, out))]
              /\ UNCHANGED <<dst_path_lock, stderr>>
    /\ UNCHANGED <<rel_key, get_obj_output, put_issued, dst_s3_lock, dst_bucket>>
    /\ UNCHANGED <<pages, main_vars, km_vars, pool_vars>>

\* GuardDropped for a guard that is kept alive (leaked) past the closure.
GuardDropped_Leaked(lock) == lock

\* A MutexGuard goes out of scope: the mutex is free again.
GuardDropped(lock) == [lock EXCEPT !.holder = 0]

\* main.rs:137-139, dst_s3.lock().unwrap()
LockS3(i) ==
    /\ task_pc[i] = "waitS3"
    /\ dst_s3_lock.holder = 0
    /\ IF dst_s3_lock.poisoned
       THEN /\ task_pc' = [task_pc EXCEPT ![i] = "panicked"]
            /\ dst_path_lock' = [holder |-> 0, poisoned |-> TRUE]
            /\ stderr' = Append(stderr, [text |-> "panicked", cause |-> "PoisonError"])
            /\ UNCHANGED dst_s3_lock
       ELSE /\ task_pc' = [task_pc EXCEPT ![i] = "lockedS3"]
            /\ dst_s3_lock' = [dst_s3_lock EXCEPT !.holder = i]
            /\ UNCHANGED <<dst_path_lock, stderr>>
    /\ UNCHANGED <<rel_key, get_obj_output, put_obj_req, put_issued, dst_bucket, stdout>>
    /\ UNCHANGED <<pages, main_vars, km_vars, pool_vars>>

\* main.rs:140-141: put_object builds the put future; the guard of dst_s3 is a
\* temporary and is dropped at the end of the statement.
PutObject(i) ==
    /\ task_pc[i] = "lockedS3"
    /\ task_pc' = [task_pc EXCEPT ![i] = "putCreated"]
    /\ dst_s3_lock' = GuardDropped(dst_s3_lock)
    /\ UNCHANGED <<rel_key, get_obj_output, put_obj_req, put_issued, dst_path_lock,
                   dst_bucket, stdout, stderr>>
    /\ UNCHANGED <<pages, main_vars, km_vars, pool_vars>>

\* main.rs:142: the closure returns, the guard of dst_path is dropped, and
\* and_then polls the put future: the put request goes out.
StartPut(i) ==
    /\ task_pc[i] = "putCreated"
    /\ task_pc' = [task_pc EXCEPT ![i] = "put"]
    /\ dst_path_lock' = GuardDropped(dst_path_lock)
    /\ put_issued' = put_issued \cup {i}
    /\ UNCHANGED <<rel_key, get_obj_output, put_obj_req, dst_s3_lock, dst_bucket,
                   stdout, stderr>>
    /\ UNCHANGED <<pages, main_vars, km_vars, pool_vars>>

\* The destination stores the object of a put request under its bucket and key.
Store(bucket_objs, req) ==
    {o \in bucket_objs : ~(o.bucket = req.bucket /\ o.key = req.key)} \cup {req}

\* main.rs:147: the put answers, the future ends with Ok(()).
PutOk(i) ==
    /\ task_pc[i] = "put"
    /\ FreeWorker
    /\ task_pc' = [task_pc EXCEPT ![i] = "done"]
    /\ dst_bucket' = Store(dst_bucket, unwrap(put_obj_req[i]))
    /\ UNCHANGED <<rel_key, get_obj_output, put_obj_req, put_issued, dst_path_lock,
                   dst_s3_lock, stdout, stderr>>
    /\ UNCHANGED <<pages, main_vars, km_vars, pool_vars>>

\* main.rs:141 and 147-150: the put fails, the error is printed.
PutErr(i) ==
    /\ task_pc[i] = "put"
    /\ FreeWorker
    /\ \E cause \in Causes : stderr' = Append(stderr, FutureError(cause))
    /\ task_pc' = [task_pc EXCEPT ![i] = "putFailed"]
    /\ UNCHANGED <<rel_key, get_obj_output, put_obj_req, put_issued, dst_path_lock,
                   dst_s3_lock, dst_bucket, stdout>>
    /\ UNCHANGED <<pages, main_vars, km_vars, pool_vars>>

-----------------------------------------------------------------------------
(* The pool run of main, main.rs:218-241 *)

NumTasks == 12           \* main.rs:224
blocking_threads == 4    \* main.rs:221

\* The twelve futures differ only in the number they print, so the runtime's
\* tasks are kept as counts per position:
\*   spawned   queued by rt.spawn, not polled yet
\*   pending   blocking() returned NotReady: no blocking capacity was left
\*   blocking  inside the closure of blocking(): sleeping, then printing
\*   done      the future has returned
NoTasks == [spawned |-> 0, pending |-> 0, blocking |-> 0, done |-> 0]

PoolIdle ==
    /\ pool_pc = "idle"
    /\ pool_x = 0
    /\ pool_tasks = NoTasks
    /\ pool_not_ready = 0

\* main.rs:218-222
PoolInit ==
    /\ pool_pc = "run"
    /\ pool_x = 0
    /\ pool_tasks = NoTasks
    /\ pool_not_ready = 0

\* blocking() lets a future in while fewer than blocking_threads are inside.
HasCapacity == pool_tasks.blocking < blocking_threads

\* PendingNotified for a pool that does not wake the futures it turned away.
PendingNotified_Lost == FALSE

\* A future that was turned away is notified, and polled again, once capacity
\* is free.
PendingNotified == pool_tasks.pending > 0 /\ HasCapacity

\* main.rs:224-237: one turn of the for loop; rt.spawn queues the future and
\* returns at once.
PoolSpawn ==
    /\ pool_pc = "run" /\ pool_x < NumTasks
    /\ pool_x' = pool_x + 1
    /\ pool_tasks' = [pool_tasks EXCEPT !.spawned = @ + 1]
    /\ UNCHANGED <<pool_pc, pool_not_ready>>
    /\ UNCHANGED <<km_vars, cp_vars>>

\* main.rs:226-228: a worker polls a spawned future and blocking() lets it in.
PoolEnter ==
    /\ pool_tasks.spawned > 0 /\ HasCapacity
    /\ pool_tasks' = [pool_tasks EXCEPT !.spawned = @ - 1, !.blocking = @ + 1]
    /\ UNCHANGED <<pool_pc, pool_x, pool_not_ready>>
    /\ UNCHANGED <<km_vars, cp_vars>>

\* main.rs:227-228: a worker polls a spawned future and blocking() finds no
\* capacity: poll_fn returns NotReady, the future waits for a notification.
PoolNotReady ==
    /\ pool_tasks.spawned > 0 /\ ~HasCapacity
    /\ pool_tasks' = [pool_tasks EXCEPT !.spawned = @ - 1, !.pending = @ + 1]
    /\ pool_not_ready' = pool_not_ready + 1
    /\ UNCHANGED <<pool_pc, pool_x>>
    /\ UNCHANGED <<km_vars, cp_vars>>

\* main.rs:227-228: a future that was turned away is polled again and let in.
PoolReenter ==
    /\ PendingNotified
    /\ pool_tasks' = [pool_tasks EXCEPT !.pending = @ - 1, !.blocking = @ + 1]
    /\ UNCHANGED <<pool_pc, pool_x, pool_not_ready>>
    /\ UNCHANGED <<km_vars, cp_vars>>

\* main.rs:229-235: the sleep returns, the line is printed, the future ends
\* and its blocking capacity is free again.
PoolBlockingDone ==
    /\ pool_tasks.blocking > 0
    /\ pool_tasks' = [pool_tasks EXCEPT !.blocking = @ - 1, !.done = @ + 1]
    /\ UNCHANGED <<pool_pc, pool_x, pool_not_ready>>
    /\ UNCHANGED <<km_vars, cp_vars>>

\* main.rs:239-241: the for loop is over, shutdown_on_idle().wait() returns
\* once no spawned future is left, main returns Ok(()).
PoolShutdownOnIdle ==
    /\ pool_pc = "run" /\ pool_x = NumTasks
    /\ pool_tasks.spawned = 0 /\ pool_tasks.pending = 0 /\ pool_tasks.blocking = 0
    /\ pool_pc' = "done"
    /\ UNCHANGED <<pool_x, pool_tasks, pool_not_ready>>
    /\ UNCHANGED <<km_vars, cp_vars>>

-----------------------------------------------------------------------------
(* Specifications *)

Init == KmIdle /\ CpInit /\ PoolIdle

Next ==
    \/ ListOk
    \/ ListNoContents
    \/ ListErr
    \/ Spawn
    \/ CpActionReturn
    \/ ShutdownOnIdle
    \/ \E i \in Objs : StartGet(i)
    \/ \E i \in Objs : GetOk(i)
    \/ \E i \in Objs : GetErr(i)
    \/ \E i \in Objs : LockPath(i)
    \/ \E i \in Objs : BuildPut(i)
    \/ \E i \in Objs : LockS3(i)
    \/ \E i \in Objs : PutObject(i)
    \/ \E i \in Objs : StartPut(i)
    \/ \E i \in Objs : PutOk(i)
    \/ \E i \in Objs : PutErr(i)

Spec == Init /\ [][Next]_vars

CpIdle ==
    /\ pages = <<>>
    /\ main_pc = "idle"
    /\ is_truncated = FALSE
    /\ next_continuation_token = None
    /\ list_obj_output = None
    /\ matching_objs = <<>>
    /\ list_reqs = <<>>
    /\ listed = <<>>
    /\ dispatched = <<>>
    /\ exit_status = NoExit
    /\ task_pc = [i \in Objs |-> "unspawned"]
    /\ rel_key = [i \in Objs |-> <<>>]
    /\ get_obj_output = [i \in Objs |-> None]
    /\ put_obj_req = [i \in Objs |-> None]
    /\ put_issued = {}
    /\ dst_path_lock = Unlocked
    /\ dst_s3_lock = Unlocked
    /\ dst_bucket = {}
    /\ stdout = <<>>
    /\ stderr = <<>>

InitKey == KmInit /\ CpIdle /\ PoolIdle

NextKey == MapKey /\ UNCHANGED <<cp_vars, pool_vars>>

SpecKey == InitKey /\ [][NextKey]_vars

InitPool == KmIdle /\ CpIdle /\ PoolInit

NextPool ==
    \/ PoolSpawn
    \/ PoolEnter
    \/ PoolNotReady
    \/ PoolReenter
    \/ PoolBlockingDone
    \/ PoolShutdownOnIdle

SpecPool == InitPool /\ [][NextPool]_vars

\* The main thread keeps running its loop, the workers keep polling the
\* futures that are ready, and every sleep returns.
FairSpecPool ==
    /\ SpecPool
    /\ WF_vars(PoolSpawn)
    /\ WF_vars(PoolEnter)
    /\ WF_vars(PoolNotReady)
    /\ WF_vars(PoolReenter)
    /\ WF_vars(PoolBlockingDone)
    /\ WF_vars(PoolShutdownOnIdle)

-----------------------------------------------------------------------------
(* Properties *)

Elems(seq) == {seq[n] : n \in 1..Len(seq)}
IsPrefix(a, b) == Len(a) <= Len(b) /\ SubSeq(b, 1, Len(a)) = a
NoDuplicates(seq) == \A m, n \in 1..Len(seq) : seq[m] = seq[n] => m = n

\* every object of the backend's listing
AllObjects == UNION {Elems(unwrap(pages[k].contents)) :
                        k \in {n \in 1..Len(pages) : pages[n].contents # None}}

\* tasks with a get or a put in progress
Running == {i \in Objs : task_pc[i] \in {"get", "put"}}

\* C1: at no point of a run are more tasks in the running state (get or put
\* in progress) than the runtime's limit, here its CoreThreads workers.
C1_ConcurrencyBound == Cardinality(Running) <= CoreThreads

\* C2: when the run has ended and no list call failed, a task was dispatched
\* for exactly the objects of all the pages of the listing, once each.
C2_PaginationComplete ==
    (exit_status # NoExit /\ main_pc # "failed") =>
        (Elems(dispatched) = AllObjects /\ NoDuplicates(dispatched))

\* C3: the run is Done (main returns Ok after shutdown_on_idle) only when the
\* listing is exhausted and every dispatched task has ended in a terminal
\* outcome; and once the listing is exhausted no further task is spawned.
ListingExhausted == main_pc \in {"loop", "done"} /\ ~is_truncated

C3_DrainBeforeDone ==
    /\ [](main_pc = "done" =>
            /\ ListingExhausted
            /\ Len(list_reqs) = Len(pages)
            /\ Elems(dispatched) = AllObjects
            /\ \A i \in Elems(dispatched) : task_pc[i] \in Terminal)
    /\ [][ListingExhausted => dispatched' = dispatched]_vars

\* a run that is Done after two tasks, one of which failed
C3_Witness ==
    /\ main_pc = "done" /\ Len(dispatched) = 2
    /\ \E i \in Objs : task_pc[i] = "putFailed"
    /\ \E i \in Objs : task_pc[i] = "done"

\* C4: when the list call of a page k >= 2 fails, every task dispatched
\* before has reached a terminal outcome when the run has ended, no later
\* page is listed or dispatched, and the run reports failure.
C4_FatalIsolation ==
    (main_pc = "failed" /\ Len(list_reqs) >= 2) =>
        /\ \A i \in Elems(dispatched) : task_pc[i] \in Terminal
        /\ \A i \in Elems(dispatched) :
             \E k \in 1..(Len(list_reqs) - 1) :
                pages[k].contents # None /\ i \in Elems(unwrap(pages[k].contents))
        /\ exit_status # 0 /\ exit_status # NoExit

\* C5: at the end of a run whose list calls succeeded, every listed object was
\* attempted, every object whose get and put did not fail ended in success,
\* and every object whose get or put failed has exactly one recorded failure
\* that carries its key and its stage.
RecordsFailure(line, i, stage) ==
    /\ "key" \in DOMAIN line /\ "stage" \in DOMAIN line
    /\ line.key = rel_key[i] /\ line.stage = stage

C5_PartialFailureIsolation ==
    main_pc = "done" =>
        \A i \in Elems(listed) :
            /\ task_pc[i] # "unspawned"
            /\ task_pc[i] \notin {"getFailed", "putFailed"} => task_pc[i] = "done"
            /\ task_pc[i] = "getFailed" =>
                 Cardinality({n \in 1..Len(stderr) : RecordsFailure(stderr[n], i, "Get")}) = 1
            /\ task_pc[i] = "putFailed" =>
                 Cardinality({n \in 1..Len(stderr) : RecordsFailure(stderr[n], i, "Put")}) = 1

\* C6: the exit status is zero only if no list call failed and every listed
\* object was transferred.
C6_ExitStatus ==
    exit_status = 0 =>
        /\ main_pc # "failed"
        /\ \A i \in Elems(listed) : task_pc[i] = "done"

\* The key mapping as the specification words it.
strip_prefix(s, p) == IF StartsWith(s, p) THEN Drop(s, Len(p)) ELSE s
trim_leading_slash(s) == IF s # <<>> /\ s[1] = "/" THEN Drop(s, 1) ELSE s
trim_trailing_slash(s) == trim_end_matches(s, "/")

\* C7: the destination key is trim_trailing_slash(destinationPrefix) + "/" +
\* trim_leading_slash(strip_prefix(sourceKey, sourcePrefix)), the prefix and
\* the leading slash being removed once.
C7_KeyMapping ==
    km_pc = "mapped" =>
        km_out_key = trim_trailing_slash(km_dst_key) \o <<"/">>
                        \o trim_leading_slash(strip_prefix(km_obj_key, km_src_key))

\* C8: a put is built and issued for an object only after its get has
\* succeeded; a task whose get failed ends there and no put is built or
\* issued for it.
C8_GetBeforePut ==
    \A i \in Objs :
        /\ (task_pc[i] \in InClosure \cup {"put", "done", "putFailed"}
              \/ i \in put_issued \/ put_obj_req[i] # None)
             => get_obj_output[i] # None
        /\ task_pc[i] = "getFailed" =>
             get_obj_output[i] = None /\ put_obj_req[i] = None /\ i \notin put_issued

\* one task ended by a failed get while the put of another one is out
C8_Witness ==
    \E i, j \in Objs : task_pc[i] = "getFailed" /\ j \in put_issued

\* C9: the put request of an object carries the body, content length, content
\* type, content disposition, content language and user metadata of its get
\* response, and after a successful transfer the destination holds an object
\* equal to the source on those fields.
SameObject(o, out) ==
    /\ o.body = out.body
    /\ o.content_length = out.content_length
    /\ o.content_type = out.content_type
    /\ o.content_disposition = out.content_disposition
    /\ o.content_language = out.content_language
    /\ o.metadata = out.metadata

C9_RoundTrip ==
    \A i \in Objs :
        /\ put_obj_req[i] # None =>
             SameObject(unwrap(put_obj_req[i]), unwrap(get_obj_output[i]))
        /\ task_pc[i] = "done" =>
             \E o \in dst_bucket :
                /\ o.bucket = dst_path.bucket
                /\ o.key = unwrap(put_obj_req[i]).key
                /\ SameObject(o, unwrap(get_obj_output[i]))

\* two transferred objects with different attribute sets
C9_Witness ==
    /\ \A i \in Objs : task_pc[i] = "done"
    /\ \E i, j \in Objs :
         /\ unwrap(get_obj_output[i]).content_type # None
         /\ unwrap(get_obj_output[j]).content_type = None

\* C10: tasks are spawned in the order in which the objects are listed, within
\* a page and across pages: the spawn order is a prefix of the listing order,
\* and all of it once cp_action has returned.
C10_DispatchOrder ==
    /\ IsPrefix(dispatched, listed)
    /\ main_pc \in {"loop", "done"} => dispatched = listed

\* both objects of a page were spawned, the second has completed, the first
\* has not
C10_Witness ==
    /\ Len(list_reqs) = 1
    /\ dispatched = <<1, 2>>
    /\ task_pc[2] = "done" /\ task_pc[1] = "get"

\* C11 as stated: for an object whose key is the source prefix, the relative
\* key is empty and the destination key is the destination prefix with its
\* trailing slashes trimmed.
C11_EmptyRelKey_Original ==
    (km_pc = "mapped" /\ km_obj_key = km_src_key) =>
        /\ km_rel_key = <<>>
        /\ km_out_key = trim_end_matches(km_dst_key, "/")

\* C11 as amended: for an object whose key is the source prefix, the relative
\* key is empty and the destination key is the destination prefix with its
\* trailing slashes trimmed, followed by one "/".
C11_EmptyRelKey ==
    (km_pc = "mapped" /\ km_obj_key = km_src_key) =>
        /\ km_rel_key = <<>>
        /\ km_out_key = trim_end_matches(km_dst_key, "/") \o <<"/">>

\* a directory marker "a/" mapped under the destination prefix "a/"
C11_Witness ==
    /\ km_pc = "mapped"
    /\ km_src_key = <<"a", "/">> /\ km_obj_key = <<"a", "/">>
    /\ km_dst_key = <<"a", "/">>
    /\ km_out_key = <<"a", "/">>

\* C12: the put request of an object carries the content encoding of its get
\* response, so a transferred object has the content encoding of its source.
C12_ContentEncoding ==
    \A i \in Objs :
        put_obj_req[i] # None =>
            unwrap(put_obj_req[i]).content_encoding
                = unwrap(get_obj_output[i]).content_encoding

\* The answers to the list requests issued so far: the last request may have
\* failed, every earlier one was answered.
Answer(n) == list_objects_v2(list_reqs[n])

\* C13: the first list request carries no continuation token; every later one
\* follows a page with is_truncated = true and carries the token of that
\* page; after a page with is_truncated false or absent the listing ends.
C13_TokenChaining ==
    /\ Len(list_reqs) >= 1 => list_reqs[1] = None
    /\ \A n \in 2..Len(list_reqs) :
          /\ Answer(n - 1).is_truncated = Some(TRUE)
          /\ list_reqs[n] = Answer(n - 1).next_continuation_token
    /\ main_pc = "done" =>
          unwrap_or(Answer(Len(list_reqs)).is_truncated, FALSE) = FALSE

\* a run over two pages that ended on a page without is_truncated
C13_Witness ==
    /\ main_pc = "done"
    /\ list_reqs = <<None, Some(1)>>
    /\ pages[2].is_truncated = None

\* the objects of the page that answered list request n
PageObjs(n) ==
    IF Answer(n).contents = None THEN {} ELSE Elems(unwrap(Answer(n).contents))

\* C14: the list request of a page is issued only after a task has been
\* spawned for every object of the pages before it, whether or not those
\* tasks have completed.
C14_SequentialPagination ==
    \A n \in 2..Len(list_reqs) :
        \A k \in 1..(n - 1) : PageObjs(k) \subseteq Elems(dispatched)

\* the second page was listed while the transfer of the first page's object
\* was still in progress
C14_Witness ==
    /\ Len(list_reqs) = 2 /\ main_pc = "cp_action"
    /\ PageObjs(1) = {1} /\ task_pc[1] = "get"

\* C15: while as many tasks are running as the limit allows, the dispatcher
\* does not spawn the next task: it spawns it only once a slot is free.
C15_AdmissionAtDispatch ==
    [][pool_tasks.blocking = blocking_threads => pool_x' = pool_x]_vars

\* C16: the progress line of an object is printed only once its transfer has
\* completed: every line on stdout belongs to an object whose put succeeded.
C16_ProgressAtCompletion ==
    \A n \in 1..Len(stdout) :
        \A i \in Objs :
            (task_pc[i] # "unspawned" /\ stdout[n].rel_key = rel_key[i])
                => task_pc[i] = "done"

HoldsPath == {"lockedPath", "waitS3", "lockedS3", "putCreated"}
Waiting == {i \in Objs : task_pc[i] \in {"waitPath", "waitS3"}}
ClosureStep(i) ==
    LockPath(i) \/ BuildPut(i) \/ LockS3(i) \/ PutObject(i) \/ StartPut(i)

C19_MissingLengthIsolated ==
    \A i \in Objs :
        task_pc[i] = "panicked" =>
            unwrap(get_obj_output[i]).content_length = None

\* C20: a successful list response without an object list dispatches nothing
\* and the run goes on: it does not end in a panic.
C20_EmptyPage ==
    (list_obj_output # None /\ unwrap(list_obj_output).contents = None) =>
        /\ main_pc \in {"cp_action", "loop", "done"}
        /\ exit_status \in {NoExit, 0}

====
